---- MODULE Spec2Model ----
(***************************************************************************)
(* Extension-field tower of the Pluto/Eris curves (Fq2, Fq6, Fp12) as      *)
(* implemented in src/src/pluto_eris/fields.                               *)
(*                                                                         *)
(* The base prime field Fq is not part of the sources (fields/fq.rs); it   *)
(* is modelled as the integers modulo Q.  The 446-bit modulus is scaled    *)
(* down to Q = 13, which keeps every property of the modulus the tower     *)
(* code relies on: Q = 1 (mod 12), -5 is a quadratic non-residue of Fq,    *)
(* u + 2 is a cubic non-residue of Fq2, and u + 2 is a square of Fq2 (its  *)
(* norm is 9).  All constants derived from the modulus (exponents,         *)
(* Frobenius tables, E and F of sqrt) are the values of their defining     *)
(* formulas, given in the source comments, at Q.                           *)
(***************************************************************************)
EXTENDS Integers, Sequences, FiniteSets, TLC

(***************************************************************************)
(* Base field Fq (external primitive)                                      *)
(***************************************************************************)
Q == 13

Fq == 0 .. (Q - 1)

Fq_add(a, b) == (a + b) % Q
Fq_sub(a, b) == (a + Q - b) % Q
Fq_neg(a) == (Q - a) % Q
Fq_mul(a, b) == (a * b) % Q
Fq_square(a) == (a * a) % Q
Fq_double(a) == (a + a) % Q

(* subtle::CtOption: a value together with an is_some flag.               *)
CtSome(v) == [is_some |-> 1, value |-> v]
CtNone(v) == [is_some |-> 0, value |-> v]

(* Fq::invert: none exactly for zero. *)
Fq_invert(a) ==
    IF a = 0 THEN CtNone(0)
    ELSE CtSome(CHOOSE y \in Fq : (a * y) % Q = 1)

(* The square roots of a in Fq; Fq::sqrt returns one of them (which one   *)
(* is left open), or none when the set is empty.                           *)
Fq_sqrt_roots(a) == {y \in Fq : (y * y) % Q = a}

(* Fq byte encoding: COORD_SIZE little-endian bytes of the canonical       *)
(* representative.                                                         *)
COORD_SIZE == 56
SIZE == 112

Fq_to_bytes(a) == [i \in 1 .. COORD_SIZE |-> IF i = 1 THEN a ELSE 0]

(* A little-endian byte string is canonical iff its value is below Q.      *)
Fq_bytes_canonical(bs) ==
    /\ bs[1] < Q
    /\ \A i \in 2 .. COORD_SIZE : bs[i] = 0

Fq_from_bytes(bs) ==
    IF Fq_bytes_canonical(bs) THEN CtSome(bs[1]) ELSE CtNone(0)

(***************************************************************************)
(* Fq2 = Fq[u]/(u^2 + 5)                                  fields/fq2.rs    *)
(***************************************************************************)
U_SQUARE == Q - 5

MkFq2(a, b) == [c0 |-> a, c1 |-> b]

Fq2 == [c0 : Fq, c1 : Fq]

Fq2_ZERO == MkFq2(0, 0)
Fq2_ONE == MkFq2(1, 0)
NEG_ONE == MkFq2(Q - 1, 0)

Fq2_ct_eq(a, b) == (a.c0 = b.c0) /\ (a.c1 = b.c1)

Fq2_is_zero(a) == (a.c0 = 0) /\ (a.c1 = 0)

Fq2_add(a, b) == MkFq2(Fq_add(a.c0, b.c0), Fq_add(a.c1, b.c1))
Fq2_sub(a, b) == MkFq2(Fq_sub(a.c0, b.c0), Fq_sub(a.c1, b.c1))
Fq2_neg(a) == MkFq2(Fq_neg(a.c0), Fq_neg(a.c1))
Fq2_double(a) == MkFq2(Fq_double(a.c0), Fq_double(a.c1))

Fq2_mul_assign(self, other) ==
    LET t0 == Fq_mul(self.c0, other.c0)
        t1 == Fq_mul(self.c0, other.c1)
        t2 == Fq_mul(self.c1, other.c0)
        t3 == Fq_mul(self.c1, other.c1)
    IN  MkFq2(Fq_add(t0, Fq_mul(U_SQUARE, t3)), Fq_add(t1, t2))

(* mul(&self, other): t = *other; t.mul_assign(self) *)
Fq2_mul(self, other) == Fq2_mul_assign(other, self)

Fq2_square_assign(self) ==
    LET ab == Fq_mul(self.c0, self.c1)
        a2 == Fq_mul(self.c0, self.c0)
        b2 == Fq_mul(self.c1, self.c1)
    IN  MkFq2(Fq_add(a2, Fq_mul(U_SQUARE, b2)), Fq_double(ab))

Fq2_square(self) == Fq2_square_assign(self)

Fq2_conjugate(self) == MkFq2(self.c0, Fq_neg(self.c1))

(* Variant of frobenius_map that conjugates unless power is a multiple of 3. *)
Fq2_frobenius_map_mod3(self, power) ==
    IF power % 3 # 0 THEN Fq2_conjugate(self) ELSE self

Fq2_frobenius_map(self, power) ==
    IF power % 2 # 0 THEN Fq2_conjugate(self) ELSE self

(* Variant of cmp that takes c0 as the most significant coordinate. *)
Fq2_cmp_c0_first(self, other) ==
    IF self.c0 > other.c0 THEN "Greater"
    ELSE IF self.c0 < other.c0 THEN "Less"
    ELSE IF self.c1 > other.c1 THEN "Greater"
    ELSE IF self.c1 < other.c1 THEN "Less" ELSE "Equal"

(* Ord for Fq2; Fq compares canonical representatives as integers. *)
Fq2_cmp(self, other) ==
    LET Fq_cmp(x, y) == IF x > y THEN "Greater"
                        ELSE IF x < y THEN "Less" ELSE "Equal"
    IN  CASE Fq_cmp(self.c1, other.c1) = "Greater" -> "Greater"
          [] Fq_cmp(self.c1, other.c1) = "Less" -> "Less"
          [] Fq_cmp(self.c1, other.c1) = "Equal" -> Fq_cmp(self.c0, other.c0)

Fq2_partial_cmp(self, other) == <<"Some", Fq2_cmp(self, other)>>

(* Legendre::norm *)
Fq2_norm(self) ==
    LET t0 == Fq_square(self.c0)
        t1 == Fq_mul(Fq_square(self.c1), U_SQUARE)
    IN  Fq_sub(t1, t0)

Fq2_mul_by_nonresidue(self) ==
    LET t0 == self.c0
        t1 == self.c1
    IN  MkFq2(Fq_add(Fq_double(t0), Fq_mul(U_SQUARE, t1)),
              Fq_add(Fq_double(t1), t0))

Fq2_invert(self) ==
    LET t1 == Fq_mul(Fq_square(self.c1), U_SQUARE)
        t0 == Fq_sub(Fq_square(self.c0), t1)
        ti == Fq_invert(t0)
    IN  IF ti.is_some = 1
        THEN CtSome(MkFq2(Fq_mul(self.c0, ti.value),
                          Fq_neg(Fq_mul(self.c1, ti.value))))
        ELSE CtNone(Fq2_ZERO)

(* ff::Field::pow_vartime: square-and-multiply, most significant bit first. *)
(* acc is the running value res before the step for the lowest bit of e.    *)
RECURSIVE Fq2_pow_vartime(_, _)
Fq2_pow_vartime(self, e) ==
    IF e = 0 THEN Fq2_ONE
    ELSE CHOOSE res \in
           { IF e % 2 = 1
              THEN Fq2_mul_assign(Fq2_square(acc), self)
              ELSE Fq2_square(acc) :
                acc \in {Fq2_pow_vartime(self, e \div 2)} } : TRUE

(* Precomputed constants of Fq2::sqrt (Algorithm 10 of eprint 2012/685):   *)
(* with c = u and d = c^((q-1)/2), E = (d*c)^-1 and F = (d*c)^2 = 5.       *)
E == MkFq2(0, 1)
F == MkFq2(5, 0)

(* The exponent (q - 1) / 4 of the first exponentiation of Fq2::sqrt.      *)
SqrtExp == (Q - 1) \div 4

(* Fq2::from_bytes: both coordinates are unwrapped before the CtOption is  *)
(* built; CtOption::unwrap aborts on a none value.                         *)
Ret(v) == [aborted |-> FALSE, outcome |-> v]
Abort(why) == [aborted |-> TRUE, outcome |-> why]

Fq2_from_bytes(bytes) ==
    LET c0 == Fq_from_bytes(SubSeq(bytes, 1, COORD_SIZE))
        c1 == Fq_from_bytes(SubSeq(bytes, COORD_SIZE + 1, SIZE))
    IN  IF c0.is_some = 0 THEN Abort("unwrap c0")
        ELSE IF c1.is_some = 0 THEN Abort("unwrap c1")
        ELSE Ret([is_some |-> c0.is_some * c1.is_some,
                  value |-> MkFq2(c0.value, c1.value)])

(* Variant of to_bytes with the two coordinates written in the other order. *)
Fq2_to_bytes_swapped(self) == Fq_to_bytes(self.c1) \o Fq_to_bytes(self.c0)

Fq2_to_bytes(self) == Fq_to_bytes(self.c0) \o Fq_to_bytes(self.c1)

(* PrimeField::from_repr for Fq2: the flag is the constant 1. *)
Fq2_from_repr(repr) ==
    LET c0 == Fq_from_bytes(SubSeq(repr, 1, COORD_SIZE))
        c1 == Fq_from_bytes(SubSeq(repr, COORD_SIZE + 1, SIZE))
    IN  IF c0.is_some = 0 THEN Abort("unwrap c0")
        ELSE IF c1.is_some = 0 THEN Abort("unwrap c1")
        ELSE Ret(CtSome(MkFq2(c0.value, c1.value)))

(***************************************************************************)
(* Fq6 = Fq2[v]/(v^3 - (u + 2))                           fields/fq6.rs    *)
(***************************************************************************)
MkFq6(a, b, c) == [c0 |-> a, c1 |-> b, c2 |-> c]

Fq6_ZERO == MkFq6(Fq2_ZERO, Fq2_ZERO, Fq2_ZERO)
Fq6_ONE == MkFq6(Fq2_ONE, Fq2_ZERO, Fq2_ZERO)

Fq6_ct_eq(a, b) ==
    Fq2_ct_eq(a.c0, b.c0) /\ Fq2_ct_eq(a.c1, b.c1) /\ Fq2_ct_eq(a.c2, b.c2)

Fq6_is_zero(self) == Fq2_is_zero(self.c0) /\ Fq2_is_zero(self.c1)

Fq6_add(a, b) ==
    MkFq6(Fq2_add(a.c0, b.c0), Fq2_add(a.c1, b.c1), Fq2_add(a.c2, b.c2))
Fq6_sub(a, b) ==
    MkFq6(Fq2_sub(a.c0, b.c0), Fq2_sub(a.c1, b.c1), Fq2_sub(a.c2, b.c2))
Fq6_neg(a) == MkFq6(Fq2_neg(a.c0), Fq2_neg(a.c1), Fq2_neg(a.c2))

Fq6_mul_assign(self, other) ==
    LET a_a == Fq2_mul(self.c0, other.c0)
        b_b == Fq2_mul(self.c1, other.c1)
        c_c == Fq2_mul(self.c2, other.c2)
        t1 == Fq2_add(
                Fq2_mul_by_nonresidue(
                  Fq2_sub(Fq2_sub(Fq2_mul(Fq2_add(other.c1, other.c2),
                                          Fq2_add(self.c1, self.c2)),
                                  b_b),
                          c_c)),
                a_a)
        t3 == Fq2_sub(
                Fq2_add(Fq2_sub(Fq2_mul(Fq2_add(other.c0, other.c2),
                                        Fq2_add(self.c0, self.c2)),
                                a_a),
                        b_b),
                c_c)
        t2 == Fq2_add(
                Fq2_sub(Fq2_sub(Fq2_mul(Fq2_add(other.c0, other.c1),
                                        Fq2_add(self.c0, self.c1)),
                                a_a),
                        b_b),
                Fq2_mul_by_nonresidue(c_c))
    IN  MkFq6(t1, t2, t3)

Fq6_mul(self, other) == Fq6_mul_assign(other, self)

(* Variant of square_assign whose last coefficient leaves s4 out. *)
Fq6_square_assign_short(self) ==
    LET s0 == Fq2_square_assign(self.c0)
        ab == Fq2_mul(self.c0, self.c1)
        s1 == Fq2_double(ab)
        s2 == Fq2_square_assign(Fq2_add(Fq2_sub(self.c0, self.c1), self.c2))
        bc == Fq2_mul(self.c1, self.c2)
        s3 == Fq2_double(bc)
        s4 == Fq2_square_assign(self.c2)
    IN  MkFq6(Fq2_add(Fq2_mul_by_nonresidue(s3), s0),
              Fq2_add(Fq2_mul_by_nonresidue(s4), s1),
              Fq2_sub(Fq2_add(Fq2_add(s1, s2), s3), s0))

Fq6_square_assign(self) ==
    LET s0 == Fq2_square_assign(self.c0)
        ab == Fq2_mul(self.c0, self.c1)
        s1 == Fq2_double(ab)
        s2 == Fq2_square_assign(Fq2_add(Fq2_sub(self.c0, self.c1), self.c2))
        bc == Fq2_mul(self.c1, self.c2)
        s3 == Fq2_double(bc)
        s4 == Fq2_square_assign(self.c2)
    IN  MkFq6(Fq2_add(Fq2_mul_by_nonresidue(s3), s0),
              Fq2_add(Fq2_mul_by_nonresidue(s4), s1),
              Fq2_sub(Fq2_sub(Fq2_add(Fq2_add(s1, s2), s3), s0), s4))

FROBENIUS_COEFF_FQ6_C1 ==
    << MkFq2(1, 0), MkFq2(12, 5), MkFq2(9, 0),
       MkFq2(4, 6), MkFq2(3, 0), MkFq2(10, 2) >>

(* Variant of the second table that repeats the first one. *)
FROBENIUS_COEFF_FQ6_C2_as_C1 == FROBENIUS_COEFF_FQ6_C1

FROBENIUS_COEFF_FQ6_C2 ==
    << MkFq2(1, 0), MkFq2(6, 3), MkFq2(3, 0),
       MkFq2(5, 9), MkFq2(9, 0), MkFq2(2, 1) >>

Fq6_frobenius_map(self, power) ==
    MkFq6(Fq2_frobenius_map(self.c0, power),
          Fq2_mul_assign(Fq2_frobenius_map(self.c1, power),
                         FROBENIUS_COEFF_FQ6_C1[(power % 6) + 1]),
          Fq2_mul_assign(Fq2_frobenius_map(self.c2, power),
                         FROBENIUS_COEFF_FQ6_C2[(power % 6) + 1]))

(* c0, c1, c2 -> c2, c0, c1, then the new c0 times the Fq2 non-residue *)
(* Variant of mul_by_nonresidue that leaves the coefficients in place. *)
Fq6_mul_by_nonresidue_in_place(self) ==
    MkFq6(Fq2_mul_by_nonresidue(self.c0), self.c1, self.c2)

Fq6_mul_by_nonresidue(self) ==
    MkFq6(Fq2_mul_by_nonresidue(self.c2), self.c0, self.c1)

Fq6_mul_by_1(self, c1) ==
    LET b_b == Fq2_mul(self.c1, c1)
        t1 == Fq2_mul_by_nonresidue(
                Fq2_sub(Fq2_mul(c1, Fq2_add(self.c1, self.c2)), b_b))
        t2 == Fq2_sub(Fq2_mul(c1, Fq2_add(self.c0, self.c1)), b_b)
    IN  MkFq6(t1, t2, b_b)

Fq6_mul_by_01(self, c0, c1) ==
    LET a_a == Fq2_mul(self.c0, c0)
        b_b == Fq2_mul(self.c1, c1)
        t1 == Fq2_add(
                Fq2_mul_by_nonresidue(
                  Fq2_sub(Fq2_mul(c1, Fq2_add(self.c1, self.c2)), b_b)),
                a_a)
        t3 == Fq2_add(Fq2_sub(Fq2_mul(c0, Fq2_add(self.c0, self.c2)), a_a),
                      b_b)
        t2 == Fq2_sub(Fq2_sub(Fq2_mul(Fq2_add(c0, c1),
                                      Fq2_add(self.c0, self.c1)),
                              a_a),
                      b_b)
    IN  MkFq6(t1, t2, t3)

Fq6_invert(self) ==
    LET c0 == Fq2_add(Fq2_neg(Fq2_mul(Fq2_mul_by_nonresidue(self.c2), self.c1)),
                      Fq2_square_assign(self.c0))
        c1 == Fq2_sub(Fq2_mul_by_nonresidue(Fq2_square_assign(self.c2)),
                      Fq2_mul(self.c0, self.c1))
        c2 == Fq2_sub(Fq2_square_assign(self.c1), Fq2_mul(self.c0, self.c2))
        tmp1 == Fq2_add(
                  Fq2_mul_by_nonresidue(
                    Fq2_add(Fq2_mul(self.c2, c1), Fq2_mul(self.c1, c2))),
                  Fq2_mul(self.c0, c0))
        ti == Fq2_invert(tmp1)
    IN  IF ti.is_some = 1
        THEN CtSome(MkFq6(Fq2_mul(ti.value, c0), Fq2_mul(ti.value, c1),
                          Fq2_mul(ti.value, c2)))
        ELSE CtNone(Fq6_ZERO)

(* Variant of Fq6::sqrt that reports "no root" instead of aborting. *)
Fq6_sqrt_none(self) == Ret(CtNone(Fq6_ZERO))

(* Field::sqrt and Field::sqrt_ratio of Fq6: unimplemented!() *)
Fq6_sqrt(self) == Abort("unimplemented")
Fq6_sqrt_ratio(num, div) == Abort("unimplemented")

RECURSIVE Fq6_pow_vartime(_, _)
Fq6_pow_vartime(self, e) ==
    IF e = 0 THEN Fq6_ONE
    ELSE CHOOSE res \in
           { IF e % 2 = 1
              THEN Fq6_mul_assign(Fq6_square_assign(acc), self)
              ELSE Fq6_square_assign(acc) :
                acc \in {Fq6_pow_vartime(self, e \div 2)} } : TRUE

(***************************************************************************)
(* Fp12 = Fp6[w]/(w^2 - v)                                fields/fp12.rs   *)
(* fp12.rs is written over Fp2 and Fp6 (fields/fp2.rs, fields/fp6.rs),     *)
(* the same tower code as Fq2 and Fq6 over the same modulus: its table     *)
(* FROBENIUS_COEFF_FP12_C1 holds the powers of u + 2 with u^2 = -5.        *)
(***************************************************************************)
MkFp12(a, b) == [c0 |-> a, c1 |-> b]

Fp12_ZERO == MkFp12(Fq6_ZERO, Fq6_ZERO)
Fp12_ONE == MkFp12(Fq6_ONE, Fq6_ZERO)

Fp12_ct_eq(a, b) == Fq6_ct_eq(a.c0, b.c0) /\ Fq6_ct_eq(a.c1, b.c1)

Fp12_is_zero(self) == Fq6_is_zero(self.c0) /\ Fq6_is_zero(self.c1)

(* Variant of mul_assign that adds t1 without the multiplication by v. *)
Fp12_mul_assign_plain(self, other) ==
    LET t0 == Fq6_mul(self.c0, other.c0)
        t1 == Fq6_mul(self.c1, other.c1)
        t2 == Fq6_add(other.c0, other.c1)
        c1 == Fq6_sub(Fq6_sub(Fq6_mul(Fq6_add(self.c1, self.c0), t2), t0), t1)
    IN  MkFp12(Fq6_add(t0, t1), c1)

Fp12_mul_assign(self, other) ==
    LET t0 == Fq6_mul(self.c0, other.c0)
        t1 == Fq6_mul(self.c1, other.c1)
        t2 == Fq6_add(other.c0, other.c1)
        c1 == Fq6_sub(Fq6_sub(Fq6_mul(Fq6_add(self.c1, self.c0), t2), t0), t1)
    IN  MkFp12(Fq6_add(t0, Fq6_mul_by_nonresidue(t1)), c1)

Fp12_mul(self, other) == Fp12_mul_assign(other, self)

Fp12_square_assign(self) ==
    LET ab == Fq6_mul(self.c0, self.c1)
        c0c1 == Fq6_add(self.c0, self.c1)
        c0 == Fq6_sub(
                Fq6_sub(Fq6_mul(Fq6_add(Fq6_mul_by_nonresidue(self.c1), self.c0),
                                c0c1),
                        ab),
                Fq6_mul_by_nonresidue(ab))
    IN  MkFp12(c0, Fq6_add(ab, ab))

Fp12_neg(self) == MkFp12(Fq6_neg(self.c0), Fq6_neg(self.c1))

Fp12_conjugate(self) == MkFp12(self.c0, Fq6_neg(self.c1))

(* Variant of the table whose entries 6..11 are the negated entries 0..5,  *)
(* as they would be were v a quadratic non-residue of Fq6.                  *)
FROBENIUS_COEFF_FP12_C1_negated ==
    << MkFq2(1, 0), MkFq2(12, 4), MkFq2(3, 0), MkFq2(10, 12),
       MkFq2(9, 0), MkFq2(4, 10), MkFq2(12, 0), MkFq2(1, 9),
       MkFq2(10, 0), MkFq2(3, 1), MkFq2(4, 0), MkFq2(9, 3) >>

FROBENIUS_COEFF_FP12_C1 ==
    << MkFq2(1, 0), MkFq2(12, 4), MkFq2(3, 0), MkFq2(10, 12),
       MkFq2(9, 0), MkFq2(4, 10), MkFq2(1, 0), MkFq2(12, 4),
       MkFq2(3, 0), MkFq2(10, 12), MkFq2(9, 0), MkFq2(4, 10) >>

Fp12_frobenius_map(self, power) ==
    LET c0 == Fq6_frobenius_map(self.c0, power)
        c1 == Fq6_frobenius_map(self.c1, power)
        k == FROBENIUS_COEFF_FP12_C1[(power % 12) + 1]
    IN  MkFp12(c0, MkFq6(Fq2_mul_assign(c1.c0, k), Fq2_mul_assign(c1.c1, k),
                         Fq2_mul_assign(c1.c2, k)))

Fp12_mul_by_014(self, c0, c1, c4) ==
    LET aa == Fq6_mul_by_01(self.c0, c0, c1)
        bb == Fq6_mul_by_1(self.c1, c4)
        o == Fq2_add(c1, c4)
        n1 == Fq6_sub(Fq6_sub(Fq6_mul_by_01(Fq6_add(self.c1, self.c0), c0, o),
                              aa),
                      bb)
    IN  MkFp12(Fq6_add(Fq6_mul_by_nonresidue(bb), aa), n1)

(* Variant of mul_by_034 that forgets c0 in the cross term (o = c3). *)
Fp12_mul_by_034_cross(self, c0, c3, c4) ==
    LET t0 == MkFq6(Fq2_mul(self.c0.c0, c0), Fq2_mul(self.c0.c1, c0),
                    Fq2_mul(self.c0.c2, c0))
        t1 == Fq6_mul_by_01(self.c1, c3, c4)
        t2 == Fq6_sub(Fq6_mul_by_01(Fq6_add(self.c0, self.c1), c3, c4), t0)
    IN  MkFp12(Fq6_add(t0, Fq6_mul_by_nonresidue(t1)), Fq6_sub(t2, t1))

Fp12_mul_by_034(self, c0, c3, c4) ==
    LET t0 == MkFq6(Fq2_mul(self.c0.c0, c0), Fq2_mul(self.c0.c1, c0),
                    Fq2_mul(self.c0.c2, c0))
        t1 == Fq6_mul_by_01(self.c1, c3, c4)
        o == Fq2_add(c0, c3)
        t2 == Fq6_sub(Fq6_mul_by_01(Fq6_add(self.c0, self.c1), o, c4), t0)
    IN  MkFp12(Fq6_add(t0, Fq6_mul_by_nonresidue(t1)), Fq6_sub(t2, t1))

Fp12_invert(self) ==
    LET c0s == Fq6_sub(Fq6_square_assign(self.c0),
                       Fq6_mul_by_nonresidue(Fq6_square_assign(self.c1)))
        ti == Fq6_invert(c0s)
    IN  IF ti.is_some = 1
        THEN CtSome(MkFp12(Fq6_mul_assign(ti.value, self.c0),
                           Fq6_neg(Fq6_mul_assign(ti.value, self.c1))))
        ELSE CtNone(Fp12_ZERO)

(* fp4_square inside cyclotomic_square: the pair <<c0, c1>> it writes. *)
fp4_square(a0, a1) ==
    LET t0 == Fq2_square(a0)
        t1 == Fq2_square(a1)
        c0 == Fq2_add(Fq2_mul_by_nonresidue(t1), t0)
        c1 == Fq2_sub(Fq2_sub(Fq2_square_assign(Fq2_add(a0, a1)), t0), t1)
    IN  <<c0, c1>>

Fp12_cyclotomic_square(self) ==
    LET q1 == fp4_square(self.c0.c0, self.c1.c1)
        q2 == fp4_square(self.c1.c0, self.c0.c2)
        q3 == fp4_square(self.c0.c1, self.c1.c2)
        n00 == Fq2_add(Fq2_double(Fq2_sub(q1[1], self.c0.c0)), q1[1])
        n11 == Fq2_add(Fq2_double(Fq2_add(q1[2], self.c1.c1)), q1[2])
        n01 == Fq2_add(Fq2_double(Fq2_sub(q2[1], self.c0.c1)), q2[1])
        n12 == Fq2_add(Fq2_double(Fq2_add(q2[2], self.c1.c2)), q2[2])
        t3 == Fq2_mul_by_nonresidue(q3[2])
        n10 == Fq2_add(Fq2_double(Fq2_add(t3, self.c1.c0)), t3)
        n02 == Fq2_add(Fq2_double(Fq2_sub(q3[1], self.c0.c2)), q3[1])
    IN  MkFp12(MkFq6(n00, n01, n02), MkFq6(n10, n11, n12))

(* Field::sqrt and Field::sqrt_ratio of Fp12: unimplemented!() *)
Fp12_sqrt(self) == Abort("unimplemented")
Fp12_sqrt_ratio(num, div) == Abort("unimplemented")

RECURSIVE Fp12_pow_vartime(_, _)
Fp12_pow_vartime(self, e) ==
    IF e = 0 THEN Fp12_ONE
    ELSE CHOOSE res \in
           { IF e % 2 = 1
              THEN Fp12_mul_assign(Fp12_square_assign(acc), self)
              ELSE Fp12_square_assign(acc) :
                acc \in {Fp12_pow_vartime(self, e \div 2)} } : TRUE

(***************************************************************************)
(* Pairing engine                                      bls12381/engine.rs  *)
(* Fq12, the curve points, the loop parameter BLS_X and the line steps     *)
(* double and add come from modules outside these files.  Fq12 is taken to *)
(* be the tower above; the loop parameter is cut to its leading byte; a G1 *)
(* point is its affine pair <<x, y>> with <<0, 0>> the identity; a G2      *)
(* point is an element of a cyclic group of order G2Order with 0 the       *)
(* identity; a line step returns three Fq2 coefficients fixed by the       *)
(* points it is taken at.                                                  *)
(***************************************************************************)
BLS_X == <<1, 1, 0, 1, 0, 0, 1, 0>>

G2Order == 5

G1Identity == <<0, 0>>

(* doubling step: the coefficients of the tangent at r, and 2r *)
DoubleCoeffs(r) ==
    [k \in 1 .. 3 |-> MkFq2((3 * r + k) % Q, (r * r + 2 * k) % Q)]
(* Variant of the doubling step that leaves r where it is. *)
DoublePoint_stays(r) == r

DoublePoint(r) == (2 * r) % G2Order

(* addition step: the coefficients of the line through r and q, and r + q *)
AddCoeffs(r, q) ==
    [k \in 1 .. 3 |-> MkFq2((3 * r + 6 * q + k + 3) % Q, (r * r + q + 2 * k) % Q)]
AddPoint(r, q) == (r + q) % G2Order

(* Variant of ell that keeps the line alone instead of folding it into f. *)
ell_overwrite(f, coeffs, p) ==
    LET c0 == MkFq2(Fq_mul(coeffs[1].c0, p[2]), Fq_mul(coeffs[1].c1, p[2]))
        c1 == MkFq2(Fq_mul(coeffs[2].c0, p[1]), Fq_mul(coeffs[2].c1, p[1]))
    IN  Fp12_mul_by_014(Fp12_ONE, coeffs[3], c1, c0)

ell(f, coeffs, p) ==
    LET c0 == MkFq2(Fq_mul(coeffs[1].c0, p[2]), Fq_mul(coeffs[1].c1, p[2]))
        c1 == MkFq2(Fq_mul(coeffs[2].c0, p[1]), Fq_mul(coeffs[2].c1, p[1]))
    IN  Fp12_mul_by_014(f, coeffs[3], c1, c0)

(* Variant of the loop of exp_by_x that skips the first element of BLS_X. *)
RECURSIVE exp_by_x_acc_skip_first(_, _)
exp_by_x_acc_skip_first(f, n) ==
    IF n <= 1 THEN Fp12_ONE
    ELSE CHOOSE out \in
           { LET sq == Fp12_cyclotomic_square(acc)
             IN  IF BLS_X[n] = 1 THEN Fp12_mul_assign(sq, f) ELSE sq :
               acc \in {exp_by_x_acc_skip_first(f, n - 1)} } : TRUE

(* exp_by_x: the accumulator after the first n elements of BLS_X. *)
RECURSIVE exp_by_x_acc(_, _)
exp_by_x_acc(f, n) ==
    IF n = 0 THEN Fp12_ONE
    ELSE CHOOSE out \in
           { LET sq == IF n - 1 # 0 THEN Fp12_cyclotomic_square(acc) ELSE acc
             IN  IF BLS_X[n] = 1 THEN Fp12_mul_assign(sq, f) ELSE sq :
               acc \in {exp_by_x_acc(f, n - 1)} } : TRUE

exp_by_x(f) == Fp12_conjugate(exp_by_x_acc(f, Len(BLS_X)))

(* The statement at the given source line of the closure of                *)
(* final_exponentiation, applied to the temporaries t[0] .. t[6].          *)
FinalExpStmt(t, line) ==
    CASE line = 42 -> [t EXCEPT ![2] = Fp12_mul_assign(t[0], t[1])]
      [] line = 43 -> [t EXCEPT ![1] = t[2]]
      [] line = 44 -> [t EXCEPT ![2] = Fp12_frobenius_map(t[2], 2)]
      [] line = 45 -> [t EXCEPT ![2] = Fp12_mul_assign(t[2], t[1])]
      [] line = 46 -> [t EXCEPT ![1] = t[2]]
      [] line = 47 -> [t EXCEPT ![1] = Fp12_cyclotomic_square(t[1])]
      [] line = 48 -> [t EXCEPT ![1] = Fp12_conjugate(t[1])]
      [] line = 49 -> [t EXCEPT ![3] = exp_by_x(t[2])]
      [] line = 50 -> [t EXCEPT ![4] = t[3]]
      [] line = 51 -> [t EXCEPT ![4] = Fp12_cyclotomic_square(t[4])]
      [] line = 52 -> [t EXCEPT ![5] = Fp12_mul_assign(t[1], t[3])]
      [] line = 53 -> [t EXCEPT ![1] = exp_by_x(t[5])]
      [] line = 54 -> [t EXCEPT ![0] = exp_by_x(t[1])]
      [] line = 55 -> [t EXCEPT ![6] = Fp12_mul_assign(exp_by_x(t[0]), t[4])]
      [] line = 56 -> [t EXCEPT ![4] = exp_by_x(t[6])]
      [] line = 57 -> [t EXCEPT ![5] = Fp12_conjugate(t[5])]
      [] line = 58 -> [t EXCEPT ![4] = Fp12_mul_assign(t[4], Fp12_mul_assign(t[5], t[2]))]
      [] line = 59 -> [t EXCEPT ![1] = Fp12_mul_assign(t[1], t[2])]
      [] line = 60 -> [t EXCEPT ![1] = Fp12_frobenius_map(t[1], 3)]
      [] line = 61 -> [t EXCEPT ![2] = Fp12_conjugate(t[2])]
      [] line = 62 -> [t EXCEPT ![6] = Fp12_mul_assign(t[6], t[2])]
      [] line = 63 -> [t EXCEPT ![6] = Fp12_frobenius_map(t[6], 1)]
      [] line = 64 -> [t EXCEPT ![3] = Fp12_mul_assign(t[3], t[0])]
      [] line = 65 -> [t EXCEPT ![3] = Fp12_frobenius_map(t[3], 2)]

(* Variant that drops a pair only when its G2 point is the identity. *)
ActiveTerms_q_only(terms) ==
    SelectSeq([j \in 1 .. Len(terms) |-> j],
              LAMBDA j : ~(terms[j][2] = 0))

(* Variant that drops a pair only when its G1 point is the identity. *)
ActiveTerms_p_only(terms) ==
    SelectSeq([j \in 1 .. Len(terms) |-> j],
              LAMBDA j : ~(terms[j][1] = G1Identity))

(* The indices of the pairs multi_miller_loop keeps. *)
ActiveTerms(terms) ==
    SelectSeq([j \in 1 .. Len(terms) |-> j],
              LAMBDA j : ~(terms[j][1] = G1Identity \/ terms[j][2] = 0))

(* Variant that squares at every processed element. *)
MillerSquares_always(i) == i = i

(* if i != 0, for the i-th processed element of BLS_X *)
MillerSquares(i) == i # 0

(***************************************************************************)
(* Triton cofactor group                              pluto_eris/triton.rs *)
(* The group law of Triton comes from new_curve_impl!, outside these       *)
(* files; a cyclic group of order TritonOrder with identity 0 stands for   *)
(* it.                                                                     *)
(***************************************************************************)
TritonOrder == 7

Triton_double(a) == (2 * a) % TritonOrder
Triton_add(a, b) == (a + b) % TritonOrder

(* e of clear_cofactor *)
ClearCofactorE ==
    <<
      36, 0, 0, 0, 0, 0, 36, 0, 1, 48, 224, 0, 13, 127,
      112, 228, 168, 3, 202, 118, 244, 57, 38, 111, 68, 63, 154, 93,
      58, 138, 108, 123, 228, 167, 213, 254, 145, 68, 127, 214, 168, 167,
      233, 40, 160, 8, 103, 151, 31, 255, 252, 211, 0, 0, 0, 1 >>

(* e of is_torsion_free *)
TorsionFreeE ==
    <<
      36, 0, 0, 0, 0, 0, 36, 0, 1, 48, 224, 0, 13, 127,
      112, 228, 168, 3, 202, 118, 244, 57, 38, 111, 68, 63, 154, 92,
      218, 138, 108, 123, 228, 167, 165, 254, 143, 173, 255, 214, 162, 167,
      232, 195, 0, 6, 185, 69, 159, 255, 252, 211, 0, 0, 0, 1 >>

(* Variant that reads the bits of each byte least significant first. *)
EBit_lsb_first(e, k) == (e[((k - 1) \div 8) + 1] \div (2 ^ ((k - 1) % 8))) % 2

(* The k-th element, k = 1 .. 448, of                                      *)
(* e.iter().flat_map(|byte| (0..8).rev().map(move |i| (byte >> i) & 1))    *)
EBit(e, k) == (e[((k - 1) \div 8) + 1] \div (2 ^ (7 - ((k - 1) % 8)))) % 2

(* Variant of the loop body that adds only when the bit is set. *)
TritonStepOps_branching(bit) ==
    IF bit = 1 THEN << <<"double", 0>>, <<"add", 0>>, <<"conditional_select", 0>> >>
    ELSE << <<"double", 0>> >>

(* The group operations one pass through the loop body executes. *)
TritonStepOps(bit) ==
    << <<"double", 0>>, <<"add", 0>>, <<"conditional_select", 0>> >>

(***************************************************************************)
(* Inputs.  Fq2 is covered exhaustively.  Fq6 and Fp12 elements are the    *)
(* zero and one elements, the elements with a single non-zero coefficient, *)
(* and NumRandom dense elements drawn as the tests draw theirs from a      *)
(* seeded generator.                                                       *)
(***************************************************************************)
NumRandom == 4
MaxSqrtDepth == 3

RandFq(i, k) == ((i + 1) * (i + 1) * (2 * k + 3) + 5 * i * k + k * k + 7) % Q
RandFq2(i, k) == MkFq2(RandFq(i, 2 * k), RandFq(i, 2 * k + 1))
RandFq6(i, k) ==
    MkFq6(RandFq2(i, 3 * k), RandFq2(i, 3 * k + 1), RandFq2(i, 3 * k + 2))
RandFp12(i) == MkFp12(RandFq6(i, 0), RandFq6(i, 1))

AxisFq2 == {MkFq2(1, 0), MkFq2(0, 1), MkFq2(2, 1)}

Fq6Axis ==
    {MkFq6(t, Fq2_ZERO, Fq2_ZERO) : t \in AxisFq2}
    \cup {MkFq6(Fq2_ZERO, t, Fq2_ZERO) : t \in AxisFq2}
    \cup {MkFq6(Fq2_ZERO, Fq2_ZERO, t) : t \in AxisFq2}

Fq6Inputs ==
    {Fq6_ZERO, Fq6_ONE} \cup Fq6Axis
    \cup {RandFq6(i, 0) : i \in 0 .. (NumRandom - 1)}

Fp12Axis ==
    {MkFp12(a, Fq6_ZERO) : a \in Fq6Axis} \cup {MkFp12(Fq6_ZERO, a) : a \in Fq6Axis}

(* t * v^2 + w for every t of Fq2 *)
Fp12Binomials ==
    {MkFp12(MkFq6(Fq2_ZERO, Fq2_ZERO, t), Fq6_ONE) : t \in Fq2}

Fp12Inputs ==
    {Fp12_ZERO, Fp12_ONE} \cup Fp12Axis
    \cup {RandFp12(i) : i \in 0 .. (NumRandom - 1)}

(* Sparse coefficient triples (c0, c1, c4) or (c0, c3, c4). *)
SparseInputs ==
    {<<RandFq2(j, 6), RandFq2(j, 7), RandFq2(j, 8)>> : j \in 0 .. (NumRandom - 1)}
    \cup {<<Fq2_ONE, Fq2_ZERO, Fq2_ZERO>>, <<Fq2_ZERO, Fq2_ONE, Fq2_ZERO>>,
          <<Fq2_ZERO, Fq2_ZERO, Fq2_ONE>>, <<Fq2_ZERO, Fq2_ZERO, Fq2_ZERO>>}

(* 56-byte coordinate encodings: every canonical one, and non-canonical    *)
(* ones (all bytes 0xFF, the modulus itself, a value with a high byte).    *)
CoordInputs ==
    {Fq_to_bytes(a) : a \in Fq}
    \cup {[i \in 1 .. COORD_SIZE |-> 255],
          [i \in 1 .. COORD_SIZE |-> IF i = 1 THEN Q ELSE 0],
          [i \in 1 .. COORD_SIZE |-> IF i = COORD_SIZE THEN 1 ELSE 0]}

ByteInputs == {c0 \o c1 : c0 \in CoordInputs, c1 \in CoordInputs}

(* The easy-part exponent (p^6 - 1)(p^2 + 1) and the number of exponent    *)
(* bits pow_vartime walks through, most significant first.                 *)
EasyExp == (Q * Q * Q * Q * Q * Q - 1) * (Q * Q + 1)
PowBits == 30

(* Pairing inputs: lists of at most MaxTerms pairs (p, q), the identity    *)
(* of either group among the points.                                       *)
MaxTerms == 2
G1Points == {G1Identity, <<2, 3>>, <<5, 7>>}
G2Points == {0, 1, 2}
TermLists == UNION {[1 .. n -> G1Points \X G2Points] : n \in 0 .. MaxTerms}

(* frobenius_map is called with every power up to MaxPower, beyond two    *)
(* cycles of the longest table.                                            *)
MaxPower == 25

(* The powers the Frobenius tests run over: 0..8 and 0..13. *)
TestPowersFq == 8
TestPowersFp12 == 13

(***************************************************************************)
(* State: the operation last called (op), its operands (arg), its outcome  *)
(* (res), for the recursive Fq2::sqrt its call stack, for an operation     *)
(* with a loop its local variables (local), and the sequence of            *)
(* operations the call has executed so far (trace).                        *)
(***************************************************************************)
VARIABLES op, arg, res, pc, stack, ret, local, trace

vars == <<op, arg, res, pc, stack, ret, local, trace>>

NoValue == <<>>

Init ==
    /\ op = "none"
    /\ arg = NoValue
    /\ res = Ret(NoValue)
    /\ pc = "idle"
    /\ stack = <<>>
    /\ ret = NoValue
    /\ local = NoValue
    /\ trace = <<>>

(* No call has been made yet. *)
Fresh == pc = "idle" /\ op = "none"

(* ---- Fq2 ---- *)
CallFq2Invert ==
    /\ Fresh
    /\ \E a \in Fq2 :
          /\ op' = "Fq2::invert"
          /\ arg' = a
          /\ res' = Ret(Fq2_invert(a))
    /\ UNCHANGED <<pc, stack, ret, local, trace>>

CallFq2IsZero ==
    /\ Fresh
    /\ \E a \in Fq2 :
          /\ op' = "Fq2::is_zero"
          /\ arg' = a
          /\ res' = Ret(Fq2_is_zero(a))
    /\ UNCHANGED <<pc, stack, ret, local, trace>>

CallFq2FromBytes ==
    /\ Fresh
    /\ \E bytes \in ByteInputs :
          /\ op' = "Fq2::from_bytes"
          /\ arg' = bytes
          /\ res' = Fq2_from_bytes(bytes)
    /\ UNCHANGED <<pc, stack, ret, local, trace>>

CallFq2FromRepr ==
    /\ Fresh
    /\ \E bytes \in ByteInputs :
          /\ op' = "Fq2::from_repr"
          /\ arg' = bytes
          /\ res' = Fq2_from_repr(bytes)
    /\ UNCHANGED <<pc, stack, ret, local, trace>>

(* test_ser: a_bytes = a0.to_bytes(); a1 = Fq2::from_bytes(&a_bytes) *)
TestSer ==
    /\ Fresh
    /\ \E a0 \in Fq2 :
          LET a_bytes == Fq2_to_bytes(a0)
          IN  /\ op' = "Fq2::test_ser"
              /\ arg' = a0
              /\ res' = [a_bytes |-> a_bytes, a1 |-> Fq2_from_bytes(a_bytes)]
    /\ UNCHANGED <<pc, stack, ret, local, trace>>

(* test_frobenius: a is raised to the q-th power i times and compared with *)
(* b.frobenius_map(i); one step per power.                                 *)
TestFrobeniusFq2 ==
    /\ pc = "idle"
    /\ \/ /\ op = "none"
          /\ \E a \in Fq2 :
                /\ op' = "Fq2::test_frobenius"
                /\ arg' = [base |-> a, power |-> 0]
                /\ res' = [a_pow |-> a, b_frob |-> Fq2_frobenius_map(a, 0)]
       \/ /\ op = "Fq2::test_frobenius"
          /\ arg.power + 1 < TestPowersFq
          /\ op' = op
          /\ arg' = [arg EXCEPT !.power = @ + 1]
          /\ res' = [a_pow |-> Fq2_pow_vartime(res.a_pow, Q),
                     b_frob |-> Fq2_frobenius_map(arg.base, arg.power + 1)]
    /\ UNCHANGED <<pc, stack, ret, local, trace>>

(* Fq2::sqrt, one step per call frame entered and per return. *)
SqrtCall ==
    /\ Fresh
    /\ \E a \in Fq2 :
          /\ op' = "Fq2::sqrt"
          /\ arg' = a
          /\ stack' = <<[fself |-> a, fx |-> Fq2_ZERO]>>
    /\ pc' = "body"
    /\ res' = Ret(NoValue)
    /\ ret' = NoValue
    /\ trace' = <<>>
    /\ UNCHANGED local

SqrtAbort(why) ==
    /\ res' = Abort(why)
    /\ pc' = "idle"
    /\ stack' = <<>>
    /\ ret' = NoValue
    /\ UNCHANGED <<op, arg>>

(* The field operations one pass through the body of sqrt executes, up to  *)
(* its return or its nested call.                                          *)
SqrtBodyOps(self) ==
    LET b == Fq2_pow_vartime(self, SqrtExp)
        b_2 == Fq2_square(b)
        a0 == Fq2_mul(Fq2_frobenius_map(b_2, 1), b_2)
        x == Fq2_frobenius_map(b, 1)
        head == << <<"Fq2::pow_vartime", 0>>, <<"Fq2::square", 0>>,
                   <<"Fq2::frobenius_map", 0>>, <<"Fq2::mul", 0>> >>
    IN  IF a0 = NEG_ONE THEN head
        ELSE IF Fq2_mul(x, b) = Fq2_ONE
        THEN head \o << <<"Fq2::frobenius_map", 0>>, <<"Fq2::mul", 0>>,
                        <<"Fq2::mul", 0>>, <<"Fq::sqrt", 0>>,
                        <<"Fq::mul", 0>>, <<"Fq::mul", 0>> >>
        ELSE head \o << <<"Fq2::frobenius_map", 0>>, <<"Fq2::mul", 0>>,
                        <<"Fq2::mul", 0>>, <<"Fq2::mul", 0>>,
                        <<"Fq2::sqrt", 0>> >>

SqrtBody ==
    /\ pc = "body"
    /\ UNCHANGED local
    /\ trace' = trace \o SqrtBodyOps(stack[Len(stack)].fself)
    /\ LET self == stack[Len(stack)].fself
           b == Fq2_pow_vartime(self, SqrtExp)
           b_2 == Fq2_square(b)
           b_2_q == Fq2_frobenius_map(b_2, 1)
           a0 == Fq2_mul(b_2_q, b_2)
           x == Fq2_frobenius_map(b, 1)
       IN  IF a0 = NEG_ONE
           THEN /\ ret' = CtNone(a0)
                /\ pc' = "ret"
                /\ UNCHANGED <<op, arg, res, stack>>
           ELSE IF Fq2_mul(x, b) = Fq2_ONE
           THEN LET roots == Fq_sqrt_roots(Fq2_mul(b_2, self).c0)
                IN  IF roots = {}
                    THEN SqrtAbort("unwrap")
                    ELSE \E x0 \in roots :
                            /\ ret' = CtSome(MkFq2(Fq_mul(x.c0, x0),
                                                   Fq_mul(x.c1, x0)))
                            /\ pc' = "ret"
                            /\ UNCHANGED <<op, arg, res, stack>>
           ELSE IF Len(stack) < MaxSqrtDepth
           THEN /\ stack' = Append([stack EXCEPT ![Len(stack)].fx = x],
                                   [fself |-> Fq2_mul(Fq2_mul(self, b_2), F),
                                    fx |-> Fq2_ZERO])
                /\ UNCHANGED <<op, arg, res, pc, ret>>
           ELSE SqrtAbort("stack overflow")

SqrtReturn ==
    /\ pc = "ret"
    /\ UNCHANGED local
    /\ trace' = IF Len(stack) > 1 /\ ret.is_some = 1
                THEN trace \o << <<"Fq2::mul", 0>>, <<"Fq2::mul", 0>> >>
                ELSE trace
    /\ IF Len(stack) = 1
       THEN /\ res' = Ret(ret)
            /\ pc' = "idle"
            /\ stack' = <<>>
            /\ ret' = NoValue
            /\ UNCHANGED <<op, arg>>
       ELSE IF ret.is_some = 0
       THEN SqrtAbort("unwrap")
       ELSE /\ ret' = CtSome(Fq2_mul(stack[Len(stack) - 1].fx,
                                     Fq2_mul(ret.value, E)))
            /\ stack' = SubSeq(stack, 1, Len(stack) - 1)
            /\ UNCHANGED <<op, arg, res, pc>>

(* ---- Fq6 ---- *)
CallFq6Invert ==
    /\ Fresh
    /\ \E a \in Fq6Inputs :
          /\ op' = "Fq6::invert"
          /\ arg' = a
          /\ res' = Ret(Fq6_invert(a))
    /\ UNCHANGED <<pc, stack, ret, local, trace>>

CallFq6IsZero ==
    /\ Fresh
    /\ \E a \in Fq6Inputs :
          /\ op' = "Fq6::is_zero"
          /\ arg' = a
          /\ res' = Ret(Fq6_is_zero(a))
    /\ UNCHANGED <<pc, stack, ret, local, trace>>

CallFq6Sqrt ==
    /\ Fresh
    /\ \E a \in Fq6Inputs :
          /\ op' = "Fq6::sqrt"
          /\ arg' = a
          /\ res' = Fq6_sqrt(a)
    /\ UNCHANGED <<pc, stack, ret, local, trace>>

CallFq6SqrtRatio ==
    /\ Fresh
    /\ \E num \in Fq6Inputs, div \in Fq6Inputs :
          /\ op' = "Fq6::sqrt_ratio"
          /\ arg' = <<num, div>>
          /\ res' = Fq6_sqrt_ratio(num, div)
    /\ UNCHANGED <<pc, stack, ret, local, trace>>

TestFrobeniusFq6 ==
    /\ pc = "idle"
    /\ \/ /\ op = "none"
          /\ \E a \in Fq6Inputs :
                /\ op' = "Fq6::test_frobenius"
                /\ arg' = [base |-> a, power |-> 0]
                /\ res' = [a_pow |-> a, b_frob |-> Fq6_frobenius_map(a, 0)]
       \/ /\ op = "Fq6::test_frobenius"
          /\ arg.power + 1 < TestPowersFq
          /\ op' = op
          /\ arg' = [arg EXCEPT !.power = @ + 1]
          /\ res' = [a_pow |-> Fq6_pow_vartime(res.a_pow, Q),
                     b_frob |-> Fq6_frobenius_map(arg.base, arg.power + 1)]
    /\ UNCHANGED <<pc, stack, ret, local, trace>>

(* ---- Fp12 ---- *)
CallFp12Invert ==
    /\ Fresh
    /\ \E a \in Fp12Inputs \cup Fp12Binomials :
          /\ op' = "Fp12::invert"
          /\ arg' = a
          /\ res' = Ret(Fp12_invert(a))
    /\ UNCHANGED <<pc, stack, ret, local, trace>>

CallFp12IsZero ==
    /\ Fresh
    /\ \E a \in Fp12Inputs :
          /\ op' = "Fp12::is_zero"
          /\ arg' = a
          /\ res' = Ret(Fp12_is_zero(a))
    /\ UNCHANGED <<pc, stack, ret, local, trace>>

CallFp12Sqrt ==
    /\ Fresh
    /\ \E a \in Fp12Inputs :
          /\ op' = "Fp12::sqrt"
          /\ arg' = a
          /\ res' = Fp12_sqrt(a)
    /\ UNCHANGED <<pc, stack, ret, local, trace>>

CallFp12SqrtRatio ==
    /\ Fresh
    /\ \E num \in Fp12Inputs, div \in Fp12Inputs :
          /\ op' = "Fp12::sqrt_ratio"
          /\ arg' = <<num, div>>
          /\ res' = Fp12_sqrt_ratio(num, div)
    /\ UNCHANGED <<pc, stack, ret, local, trace>>

CallFp12MulBy014 ==
    /\ Fresh
    /\ \E a \in Fp12Inputs, c \in SparseInputs :
          /\ op' = "Fp12::mul_by_014"
          /\ arg' = <<a, c>>
          /\ res' = Ret(Fp12_mul_by_014(a, c[1], c[2], c[3]))
    /\ UNCHANGED <<pc, stack, ret, local, trace>>

CallFp12MulBy034 ==
    /\ Fresh
    /\ \E a \in Fp12Inputs, c \in SparseInputs :
          /\ op' = "Fp12::mul_by_034"
          /\ arg' = <<a, c>>
          /\ res' = Ret(Fp12_mul_by_034(a, c[1], c[2], c[3]))
    /\ UNCHANGED <<pc, stack, ret, local, trace>>

TestFrobeniusFp12 ==
    /\ pc = "idle"
    /\ \/ /\ op = "none"
          /\ \E a \in Fp12Inputs :
                /\ op' = "Fp12::test_frobenius"
                /\ arg' = [base |-> a, power |-> 0]
                /\ res' = [a_pow |-> a, b_frob |-> Fp12_frobenius_map(a, 0)]
       \/ /\ op = "Fp12::test_frobenius"
          /\ arg.power + 1 < TestPowersFp12
          /\ op' = op
          /\ arg' = [arg EXCEPT !.power = @ + 1]
          /\ res' = [a_pow |-> Fp12_pow_vartime(res.a_pow, Q),
                     b_frob |-> Fp12_frobenius_map(arg.base, arg.power + 1)]
    /\ UNCHANGED <<pc, stack, ret, local, trace>>

(* ---- squaring: a.square_assign() against b.mul_assign(&a) ---- *)
CallFq2SquareAssign ==
    /\ Fresh
    /\ \E a \in Fq2 :
          /\ op' = "Fq2::square_assign"
          /\ arg' = a
          /\ res' = Ret(Fq2_square_assign(a))
    /\ UNCHANGED <<pc, stack, ret, local, trace>>

CallFq6SquareAssign ==
    /\ Fresh
    /\ \E a \in Fq6Inputs :
          /\ op' = "Fq6::square_assign"
          /\ arg' = a
          /\ res' = Ret(Fq6_square_assign(a))
    /\ UNCHANGED <<pc, stack, ret, local, trace>>

CallFp12SquareAssign ==
    /\ Fresh
    /\ \E a \in Fp12Inputs :
          /\ op' = "Fp12::square_assign"
          /\ arg' = a
          /\ res' = Ret(Fp12_square_assign(a))
    /\ UNCHANGED <<pc, stack, ret, local, trace>>

(* ---- cyclotomic squaring ---- *)
(* An element is raised to the easy-part exponent by pow_vartime, one step *)
(* per exponent bit (res = res.square(); if bit { res *= self }); then     *)
(* cyclotomic_square and square are both applied to the power.             *)
TestCyclotomicSquare ==
    /\ Fresh
    /\ \E a \in (Fp12Inputs \cup Fp12Binomials) \ {Fp12_ZERO} :
          /\ op' = "Fp12::test_cyclotomic_square"
          /\ arg' = a
    /\ local' = [acc |-> Fp12_ONE, nbit |-> PowBits]
    /\ pc' = "pow"
    /\ UNCHANGED <<res, stack, ret, trace>>

PowVartimeStep ==
    /\ pc = "pow"
    /\ local.nbit > 0
    /\ LET bit == (EasyExp \div (2 ^ (local.nbit - 1))) % 2
           sq == Fp12_square_assign(local.acc)
       IN  local' = [acc |-> IF bit = 1 THEN Fp12_mul_assign(sq, arg) ELSE sq,
                     nbit |-> local.nbit - 1]
    /\ UNCHANGED <<op, arg, res, pc, stack, ret, trace>>

CyclotomicSquareCompare ==
    /\ pc = "pow"
    /\ local.nbit = 0
    /\ res' = [elem |-> local.acc,
               cyc_out |-> Fp12_cyclotomic_square(local.acc),
               sq_out |-> Fp12_square_assign(local.acc)]
    /\ pc' = "idle"
    /\ UNCHANGED <<op, arg, stack, ret, local, trace>>

(* ---- multi_miller_loop ---- *)
(* local.active lists the kept pairs by their index in terms, local.r_pts  *)
(* holds r for each of them, local.x_idx is the position in BLS_X, and     *)
(* local.phase, local.pair the position inside the loop body.              *)
MillerLoopCall ==
    /\ Fresh
    /\ \E terms \in TermLists :
         /\ op' = "multi_miller_loop"
         /\ arg' = terms
         /\ local' = [active |-> ActiveTerms(terms),
                      f_acc |-> Fp12_ONE,
                      r_pts |-> [k \in 1 .. Len(ActiveTerms(terms)) |->
                                   terms[ActiveTerms(terms)[k]][2]],
                      x_idx |-> 2,
                      phase |-> "top",
                      pair |-> 1]
    /\ pc' = "miller"
    /\ trace' = <<>>
    /\ UNCHANGED <<res, stack, ret>>

(* top of the loop body: the conditional squaring of f *)
MillerSquare ==
    /\ pc = "miller" /\ local.phase = "top" /\ local.x_idx <= Len(BLS_X)
    /\ IF MillerSquares(local.x_idx - 2)
       THEN /\ local' = [local EXCEPT !.f_acc = Fp12_square_assign(@),
                                      !.phase = "double", !.pair = 1]
            /\ trace' = Append(trace, <<"square", 0>>)
       ELSE /\ local' = [local EXCEPT !.phase = "double", !.pair = 1]
            /\ trace' = trace
    /\ UNCHANGED <<op, arg, res, pc, stack, ret>>

(* double(&mut f, r, p) for the next kept pair *)
MillerDouble ==
    /\ pc = "miller" /\ local.phase = "double"
    /\ local.pair <= Len(local.active)
    /\ LET k == local.pair
           j == local.active[k]
       IN  /\ local' = [local EXCEPT
                          !.f_acc = ell(@, DoubleCoeffs(local.r_pts[k]), arg[j][1]),
                          !.r_pts = [@ EXCEPT ![k] = DoublePoint(@)],
                          !.pair = k + 1]
           /\ trace' = Append(trace, <<"double", j>>)
    /\ UNCHANGED <<op, arg, res, pc, stack, ret>>

(* add(&mut f, r, q, p) for the next kept pair *)
MillerAdd ==
    /\ pc = "miller" /\ local.phase = "add"
    /\ local.pair <= Len(local.active)
    /\ LET k == local.pair
           j == local.active[k]
       IN  /\ local' = [local EXCEPT
                          !.f_acc = ell(@, AddCoeffs(local.r_pts[k], arg[j][2]),
                                        arg[j][1]),
                          !.r_pts = [@ EXCEPT ![k] = AddPoint(@, arg[j][2])],
                          !.pair = k + 1]
           /\ trace' = Append(trace, <<"add", j>>)
    /\ UNCHANGED <<op, arg, res, pc, stack, ret>>

(* the end of a for_each over the pairs: on to the additions when the      *)
(* element of BLS_X is 1, otherwise on to the next element                 *)
MillerAdvance ==
    /\ pc = "miller" /\ local.phase \in {"double", "add"}
    /\ local.pair > Len(local.active)
    /\ IF local.phase = "double" /\ BLS_X[local.x_idx] = 1
       THEN local' = [local EXCEPT !.phase = "add", !.pair = 1]
       ELSE local' = [local EXCEPT !.x_idx = @ + 1, !.phase = "top", !.pair = 1]
    /\ UNCHANGED <<op, arg, res, pc, stack, ret, trace>>

MillerFinish ==
    /\ pc = "miller" /\ local.phase = "top" /\ local.x_idx > Len(BLS_X)
    /\ res' = Ret(Fp12_conjugate(local.f_acc))
    /\ trace' = Append(trace, <<"conjugate", 0>>)
    /\ pc' = "idle"
    /\ UNCHANGED <<op, arg, stack, ret, local>>

(* ---- final_exponentiation ---- *)
(* Called on an Fq12 value, or on the value multi_miller_loop has just     *)
(* returned (the pairing).  local.fe_tmp holds t0 .. t6, local.fe_line the *)
(* source line of the next statement.                                      *)
FinalExpCall ==
    /\ LET start(self) ==
               [fe_self |-> self,
                fe_tmp |-> [i \in 0 .. 6 |->
                              IF i = 0 THEN Fp12_frobenius_map(self, 6)
                              ELSE Fp12_ZERO],
                fe_line |-> 39]
       IN  \/ /\ Fresh
              /\ \E self \in Fp12Inputs :
                    /\ op' = "final_exponentiation"
                    /\ arg' = self
                    /\ local' = start(self)
           \/ /\ op = "multi_miller_loop" /\ pc = "idle"
              /\ op' = "pairing"
              /\ arg' = arg
              /\ local' = start(res.outcome)
    /\ pc' = "final_exp"
    /\ UNCHANGED <<res, stack, ret, trace>>

(* self.invert().map(|mut t1| ..).unwrap(): aborts when invert is none *)
FinalExpInvert ==
    /\ pc = "final_exp" /\ local.fe_line = 39
    /\ LET inv == Fp12_invert(local.fe_self)
       IN  IF inv.is_some = 1
           THEN /\ local' = [local EXCEPT !.fe_tmp = [@ EXCEPT ![1] = inv.value],
                                          !.fe_line = 42]
                /\ UNCHANGED <<res, pc>>
           ELSE /\ res' = Abort("unwrap")
                /\ pc' = "idle"
                /\ UNCHANGED local
    /\ UNCHANGED <<op, arg, stack, ret, trace>>

FinalExpStep ==
    /\ pc = "final_exp" /\ local.fe_line \in 42 .. 65
    /\ local' = [local EXCEPT !.fe_tmp = FinalExpStmt(@, local.fe_line),
                              !.fe_line = @ + 1]
    /\ UNCHANGED <<op, arg, res, pc, stack, ret, trace>>

(* t3 * t4 * t1 * t6, wrapped in Gt *)
FinalExpReturn ==
    /\ pc = "final_exp" /\ local.fe_line = 66
    /\ LET t == local.fe_tmp
       IN  res' = Ret(Fp12_mul_assign(Fp12_mul_assign(Fp12_mul_assign(t[3], t[4]),
                                                     t[1]), t[6]))
    /\ pc' = "idle"
    /\ UNCHANGED <<op, arg, stack, ret, local, trace>>

(* ---- Triton::clear_cofactor, Triton::is_torsion_free ---- *)
(* local.tr_acc is acc, local.tr_bit the position in the bit sequence of   *)
(* the next bit; the first bit is skipped.                                 *)
TritonCall ==
    /\ Fresh
    /\ \E self \in 0 .. (TritonOrder - 1) :
         \E f \in {"Triton::clear_cofactor", "Triton::is_torsion_free"} :
            /\ op' = f
            /\ arg' = self
    /\ local' = [tr_acc |-> 0, tr_bit |-> 2]
    /\ pc' = "triton"
    /\ trace' = <<>>
    /\ UNCHANGED <<res, stack, ret>>

TritonStep ==
    /\ pc = "triton" /\ local.tr_bit <= 8 * Len(ClearCofactorE)
    /\ LET e == IF op = "Triton::clear_cofactor" THEN ClearCofactorE
                ELSE TorsionFreeE
           bit == EBit(e, local.tr_bit)
           dbl == Triton_double(local.tr_acc)
           sum == Triton_add(dbl, arg)
       IN  /\ local' = [tr_acc |-> IF bit = 1 THEN sum ELSE dbl,
                        tr_bit |-> local.tr_bit + 1]
           /\ trace' = trace \o TritonStepOps(bit)
    /\ UNCHANGED <<op, arg, res, pc, stack, ret>>

TritonReturn ==
    /\ pc = "triton" /\ local.tr_bit > 8 * Len(ClearCofactorE)
    /\ res' = IF op = "Triton::clear_cofactor" THEN Ret(local.tr_acc)
              ELSE Ret(local.tr_acc = 0)
    /\ pc' = "idle"
    /\ UNCHANGED <<op, arg, stack, ret, local, trace>>

(* ---- Fq2 ordering ---- *)
(* b ranges over a itself and the elements with coordinates 0, 1, q - 1. *)
CallFq2Cmp ==
    /\ Fresh
    /\ \E a \in Fq2 :
         \E b \in {a} \cup {MkFq2(x, y) : x, y \in {0, 1, Q - 1}} :
            /\ op' = "Fq2::cmp"
            /\ arg' = <<a, b>>
            /\ res' = Ret(<<Fq2_cmp(a, b), Fq2_cmp(b, a), Fq2_partial_cmp(a, b)>>)
    /\ UNCHANGED <<pc, stack, ret, local, trace>>

(* ---- multiplication ---- *)
CallFq2Mul ==
    /\ Fresh
    /\ \E a \in Fq2 :
         \E b \in {a} \cup {MkFq2(x, y) : x, y \in {0, 1, Q - 1}} :
            /\ op' = "Fq2::mul_assign"
            /\ arg' = <<a, b>>
            /\ res' = Ret(<<Fq2_mul_assign(a, b), Fq2_mul_assign(b, a)>>)
    /\ UNCHANGED <<pc, stack, ret, local, trace>>

CallFq6Mul ==
    /\ Fresh
    /\ \E a \in Fq6Inputs :
         \E b \in Fq6Inputs :
            /\ op' = "Fq6::mul_assign"
            /\ arg' = <<a, b>>
            /\ res' = Ret(<<Fq6_mul_assign(a, b), Fq6_mul_assign(b, a)>>)
    /\ UNCHANGED <<pc, stack, ret, local, trace>>

CallFp12Mul ==
    /\ Fresh
    /\ \E a \in Fp12Inputs :
         \E b \in Fp12Inputs :
            /\ op' = "Fp12::mul_assign"
            /\ arg' = <<a, b>>
            /\ res' = Ret(<<Fp12_mul_assign(a, b), Fp12_mul_assign(b, a)>>)
    /\ UNCHANGED <<pc, stack, ret, local, trace>>

(* ---- specialised multiplications, as their tests call them ---- *)
TestFq2MulNonresidue ==
    /\ Fresh
    /\ \E a \in Fq2 :
          /\ op' = "Fq2::test_mul_nonresidue"
          /\ arg' = a
          /\ res' = Ret(<<Fq2_mul_by_nonresidue(a),
                          Fq2_mul_assign(a, MkFq2(Fq_add(1, 1), 1))>>)
    /\ UNCHANGED <<pc, stack, ret, local, trace>>

TestFq6MulNonresidue ==
    /\ Fresh
    /\ \E a \in Fq6Inputs :
          /\ op' = "Fq6::test_mul_nonresidue"
          /\ arg' = a
          /\ res' = Ret(<<Fq6_mul_by_nonresidue(a),
                          Fq6_mul_assign(a, MkFq6(Fq2_ZERO, Fq2_ONE, Fq2_ZERO))>>)
    /\ UNCHANGED <<pc, stack, ret, local, trace>>

TestFq6MulBy1 ==
    /\ Fresh
    /\ \E a \in Fq6Inputs :
         \E c1 \in AxisFq2 \cup {RandFq2(j, 9) : j \in 0 .. (NumRandom - 1)} :
            /\ op' = "Fq6::test_mul_by_1"
            /\ arg' = <<a, c1>>
            /\ res' = Ret(<<Fq6_mul_by_1(a, c1),
                            Fq6_mul_assign(a, MkFq6(Fq2_ZERO, c1, Fq2_ZERO))>>)
    /\ UNCHANGED <<pc, stack, ret, local, trace>>

TestFq6MulBy01 ==
    /\ Fresh
    /\ \E a \in Fq6Inputs :
         \E c0 \in AxisFq2 \cup {RandFq2(j, 10) : j \in 0 .. (NumRandom - 1)} :
          \E c1 \in AxisFq2 \cup {RandFq2(j, 9) : j \in 0 .. (NumRandom - 1)} :
            /\ op' = "Fq6::test_mul_by_01"
            /\ arg' = <<a, c0, c1>>
            /\ res' = Ret(<<Fq6_mul_by_01(a, c0, c1),
                            Fq6_mul_assign(a, MkFq6(c0, c1, Fq2_ZERO))>>)
    /\ UNCHANGED <<pc, stack, ret, local, trace>>

CallFq2Norm ==
    /\ Fresh
    /\ \E a \in Fq2 :
          /\ op' = "Fq2::norm"
          /\ arg' = a
          /\ res' = Ret(Fq2_norm(a))
    /\ UNCHANGED <<pc, stack, ret, local, trace>>

(* ---- frobenius_map with any power ---- *)
CallFq2FrobeniusMap ==
    /\ Fresh
    /\ \E a \in Fq2 :
         \E power \in 0 .. MaxPower :
            /\ op' = "Fq2::frobenius_map"
            /\ arg' = <<a, power>>
            /\ res' = Ret(Fq2_frobenius_map(a, power))
    /\ UNCHANGED <<pc, stack, ret, local, trace>>

CallFq6FrobeniusMap ==
    /\ Fresh
    /\ \E a \in Fq6Inputs :
         \E power \in 0 .. MaxPower :
            /\ op' = "Fq6::frobenius_map"
            /\ arg' = <<a, power>>
            /\ res' = Ret(Fq6_frobenius_map(a, power))
    /\ UNCHANGED <<pc, stack, ret, local, trace>>

CallFp12FrobeniusMap ==
    /\ Fresh
    /\ \E a \in Fp12Inputs :
         \E power \in 0 .. MaxPower :
            /\ op' = "Fp12::frobenius_map"
            /\ arg' = <<a, power>>
            /\ res' = Ret(Fp12_frobenius_map(a, power))
    /\ UNCHANGED <<pc, stack, ret, local, trace>>

(* ---- exp_by_x ---- *)
(* f ranges over the Fp12 inputs and over an element of order 3 on which   *)
(* cyclotomic_square and square agree.                                     *)
CallExpByX ==
    /\ Fresh
    /\ \E f \in Fp12Inputs
               \cup {MkFp12(MkFq6(MkFq2(6, 0), Fq2_ZERO, Fq2_ZERO),
                            MkFq6(Fq2_ZERO, MkFq2(3, 2), Fq2_ZERO))} :
          /\ op' = "exp_by_x"
          /\ arg' = f
          /\ res' = Ret(exp_by_x(f))
    /\ UNCHANGED <<pc, stack, ret, local, trace>>

Next ==
    \/ CallFq2Invert \/ CallFq2IsZero \/ CallFq2FromBytes \/ CallFq2FromRepr
    \/ TestSer \/ TestFrobeniusFq2
    \/ SqrtCall \/ SqrtBody \/ SqrtReturn
    \/ CallFq6Invert \/ CallFq6IsZero \/ CallFq6Sqrt \/ CallFq6SqrtRatio
    \/ TestFrobeniusFq6
    \/ CallFp12Invert \/ CallFp12IsZero \/ CallFp12Sqrt \/ CallFp12SqrtRatio
    \/ CallFp12MulBy014 \/ CallFp12MulBy034 \/ TestFrobeniusFp12
    \/ CallFq2SquareAssign \/ CallFq6SquareAssign \/ CallFp12SquareAssign
    \/ TestCyclotomicSquare \/ PowVartimeStep \/ CyclotomicSquareCompare
    \/ MillerLoopCall \/ MillerSquare \/ MillerDouble \/ MillerAdd
    \/ MillerAdvance \/ MillerFinish
    \/ FinalExpCall \/ FinalExpInvert \/ FinalExpStep \/ FinalExpReturn
    \/ TritonCall \/ TritonStep \/ TritonReturn
    \/ CallFq2Cmp
    \/ CallFq2Mul \/ CallFq6Mul \/ CallFp12Mul
    \/ TestFq2MulNonresidue \/ TestFq6MulNonresidue \/ TestFq6MulBy1
    \/ TestFq6MulBy01
    \/ CallFq2Norm
    \/ CallFq2FrobeniusMap \/ CallFq6FrobeniusMap \/ CallFp12FrobeniusMap
    \/ CallExpByX

Spec == Init /\ [][Next]_vars

(***************************************************************************)
(* Properties.                                                             *)
(***************************************************************************)

(* The dense elements the sparse multiplications stand for, as the tests   *)
(* test_fp12_mul_by_014 and test_fp12_mul_by_034 build them.               *)
Dense014(c) ==
    MkFp12(MkFq6(c[1], c[2], Fq2_ZERO), MkFq6(Fq2_ZERO, c[3], Fq2_ZERO))

Dense034(c) ==
    MkFp12(MkFq6(c[1], Fq2_ZERO, Fq2_ZERO), MkFq6(c[2], c[3], Fq2_ZERO))

(* C1: mul_by_014(c0, c1, c4) and mul_by_034(c0, c3, c4) give the same     *)
(* element as the dense mul_assign by the element whose only non-zero      *)
(* coefficients are the given ones.                                        *)
C1_SparseMulIsDenseMul ==
    /\ op = "Fp12::mul_by_014" =>
          res.outcome = Fp12_mul_assign(arg[1], Dense014(arg[2]))
    /\ op = "Fp12::mul_by_034" =>
          res.outcome = Fp12_mul_assign(arg[1], Dense034(arg[2]))

C1_Witness ==
    /\ op = "Fp12::mul_by_034"
    /\ arg[1] = RandFp12(1)
    /\ arg[2] = <<RandFq2(1, 6), RandFq2(1, 7), RandFq2(1, 8)>>
    /\ Fq2_ZERO \notin {arg[2][1], arg[2][2], arg[2][3]}
    /\ res.outcome \notin {Fp12_ZERO, arg[1]}

(* C2: for every power i in 0..12, Fp12::frobenius_map(i) of a equals a    *)
(* raised i times in succession to the power of the characteristic.        *)
C2_Fp12FrobeniusIsPower ==
    op = "Fp12::test_frobenius" =>
        /\ arg.power \in 0 .. 12
        /\ res.b_frob = Fp12_frobenius_map(arg.base, arg.power)
        /\ res.a_pow = res.b_frob

C2_Witness ==
    /\ op = "Fp12::test_frobenius"
    /\ arg.power = 12
    /\ arg.base = RandFp12(0)
    /\ arg.base.c1 # Fq6_ZERO

(* C3: for every power i in 0..7, frobenius_map(i) on Fq2 and on Fq6       *)
(* equals raising i times in succession to the power of the                *)
(* characteristic; on Fq2 it is the conjugate exactly when i is odd.       *)
C3_FqFrobeniusIsPower ==
    /\ op = "Fq2::test_frobenius" =>
          /\ arg.power \in 0 .. 7
          /\ res.b_frob = Fq2_frobenius_map(arg.base, arg.power)
          /\ res.a_pow = res.b_frob
          /\ res.b_frob = IF arg.power % 2 = 1
                          THEN MkFq2(arg.base.c0, Fq_neg(arg.base.c1))
                          ELSE arg.base
    /\ op = "Fq6::test_frobenius" =>
          /\ arg.power \in 0 .. 7
          /\ res.b_frob = Fq6_frobenius_map(arg.base, arg.power)
          /\ res.a_pow = res.b_frob

C3_Witness ==
    /\ op = "Fq6::test_frobenius"
    /\ arg.power = 7
    /\ arg.base = RandFq6(0, 0)
    /\ res.b_frob # arg.base

(* C4: at Fq2, Fq6 and Fp12, invert(a) is none if and only if a is zero,   *)
(* and for non-zero a the returned b satisfies a * b = ONE.                *)
C4_InvertNoneIffZero ==
    /\ op = "Fq2::invert" =>
          /\ (res.outcome.is_some = 0) <=> (arg = Fq2_ZERO)
          /\ arg # Fq2_ZERO => Fq2_mul(arg, res.outcome.value) = Fq2_ONE
    /\ op = "Fq6::invert" =>
          /\ (res.outcome.is_some = 0) <=> (arg = Fq6_ZERO)
          /\ arg # Fq6_ZERO => Fq6_mul(arg, res.outcome.value) = Fq6_ONE
    /\ op = "Fp12::invert" =>
          /\ (res.outcome.is_some = 0) <=> (arg = Fp12_ZERO)
          /\ arg # Fp12_ZERO => Fp12_mul(arg, res.outcome.value) = Fp12_ONE

(* C5: at Fq2, Fq6 and Fp12, is_zero(x) is true if and only if every       *)
(* coefficient of x is zero, that is, it agrees with ct_eq(x, ZERO).       *)
C5_IsZeroIffAllCoefficientsZero ==
    /\ op = "Fq2::is_zero" =>
          /\ res.outcome <=> (arg = Fq2_ZERO)
          /\ res.outcome <=> Fq2_ct_eq(arg, Fq2_ZERO)
    /\ op = "Fq6::is_zero" =>
          /\ res.outcome <=> (arg = Fq6_ZERO)
          /\ res.outcome <=> Fq6_ct_eq(arg, Fq6_ZERO)
    /\ op = "Fp12::is_zero" =>
          /\ res.outcome <=> (arg = Fp12_ZERO)
          /\ res.outcome <=> Fp12_ct_eq(arg, Fp12_ZERO)

(* A 112-byte input with at least one non-canonical coordinate encoding. *)
NonCanonical(bytes) ==
    \/ ~Fq_bytes_canonical(SubSeq(bytes, 1, COORD_SIZE))
    \/ ~Fq_bytes_canonical(SubSeq(bytes, COORD_SIZE + 1, SIZE))

(* C6: on an input with a non-canonical coordinate encoding,               *)
(* Fq2::from_bytes and from_repr return none: neither aborts and neither   *)
(* returns a field element.                                                *)
C6_NonCanonicalDecodesToNone ==
    (op \in {"Fq2::from_bytes", "Fq2::from_repr"} /\ NonCanonical(arg)) =>
        /\ ~res.aborted
        /\ res.outcome.is_some = 0

(* C7: from_bytes(to_bytes(x)) is Some(x); to_bytes gives SIZE = 112 bytes *)
(* with c0 encoded in bytes 0..56 and c1 in bytes 56..112, and from_bytes  *)
(* reads the coordinates from the same positions.                          *)
C7_BytesRoundTrip ==
    /\ op = "Fq2::test_ser" =>
          /\ res.a1 = Ret(CtSome(arg))
          /\ Len(res.a_bytes) = 112
          /\ SubSeq(res.a_bytes, 1, 56) = Fq_to_bytes(arg.c0)
          /\ SubSeq(res.a_bytes, 57, 112) = Fq_to_bytes(arg.c1)
    /\ (op = "Fq2::from_bytes" /\ ~res.aborted) =>
          /\ res.outcome.is_some = 1
          /\ Fq_to_bytes(res.outcome.value.c0) = SubSeq(arg, 1, 56)
          /\ Fq_to_bytes(res.outcome.value.c1) = SubSeq(arg, 57, 112)

C7_Witness ==
    /\ op = "Fq2::test_ser"
    /\ arg = MkFq2(3, 11)
    /\ res.a_bytes[1] = 3
    /\ res.a_bytes[57] = 11
    /\ res.a1.outcome.value = arg

(* C8: sqrt(a) is none when a is a quadratic non-residue, and when         *)
(* a = b * b it is Some(r) with r = b or r = -b.                           *)
C8_SqrtIsRootOrNone ==
    (op = "Fq2::sqrt" /\ pc = "idle") =>
        /\ ~res.aborted
        /\ \A b \in Fq2 :
              Fq2_square(b) = arg =>
                  /\ res.outcome.is_some = 1
                  /\ res.outcome.value \in {b, Fq2_neg(b)}
        /\ (\A b \in Fq2 : Fq2_square(b) # arg) => res.outcome.is_some = 0

(* C9: Fq2::sqrt terminates with an optional result for every input, zero  *)
(* included: the call it makes on self * b_2 * F never recurses without    *)
(* bound (no call is entered on an argument already on the call stack),    *)
(* and no unwrap aborts.                                                   *)
C9_SqrtTerminates ==
    op = "Fq2::sqrt" =>
        /\ ~res.aborted
        /\ \A i \in 1 .. Len(stack), j \in 1 .. Len(stack) :
              i < j => stack[i].fself # stack[j].fself

(* C10: sqrt and sqrt_ratio on Fq6 and Fp12 abort as unimplemented for     *)
(* every input and never return a value or none.                           *)
C10_HighSqrtAborts ==
    op \in {"Fq6::sqrt", "Fq6::sqrt_ratio", "Fp12::sqrt", "Fp12::sqrt_ratio"} =>
        /\ res.aborted
        /\ res.outcome = "unimplemented"

C10_Witness ==
    /\ op = "Fq6::sqrt"
    /\ arg = RandFq6(2, 0)
    /\ res.aborted

(* C11: at Fq2, Fq6 and Fp12, square_assign gives the same element as      *)
(* mul_assign by a copy of the element; in Fq2, (1 + u)^2 = -4 + 2u and    *)
(* u^2 = U_SQUARE.                                                         *)
C11_SquareIsMul ==
    /\ op = "Fq2::square_assign" =>
          /\ res.outcome = Fq2_mul_assign(arg, arg)
          /\ arg = MkFq2(1, 1) => res.outcome = MkFq2(Fq_neg(4), 2)
          /\ arg = MkFq2(0, 1) => res.outcome = MkFq2(U_SQUARE, 0)
    /\ op = "Fq6::square_assign" => res.outcome = Fq6_mul_assign(arg, arg)
    /\ op = "Fp12::square_assign" => res.outcome = Fp12_mul_assign(arg, arg)

C11_Witness ==
    /\ op = "Fq6::square_assign"
    /\ arg = RandFq6(1, 0)
    /\ arg.c2 # Fq2_ZERO
    /\ res.outcome # arg

(* C12: for an Fp12 element obtained by raising a non-zero element to the  *)
(* easy-part exponent, cyclotomic_square gives the same element as square. *)
C12_CyclotomicSquareIsSquare ==
    (op = "Fp12::test_cyclotomic_square" /\ pc = "idle") =>
        res.cyc_out = res.sq_out

(***************************************************************************)
(* The Miller loop as a schedule: the operations the loop is to execute    *)
(* for the kept pairs act, from the element of BLS_X at position i on.     *)
(***************************************************************************)
RECURSIVE MillerSchedule(_, _)
MillerSchedule(act, i) ==
    IF i > Len(BLS_X) THEN << <<"conjugate", 0>> >>
    ELSE (IF i = 2 THEN <<>> ELSE << <<"square", 0>> >>)
         \o [k \in 1 .. Len(act) |-> <<"double", act[k]>>]
         \o (IF BLS_X[i] = 1 THEN [k \in 1 .. Len(act) |-> <<"add", act[k]>>]
             ELSE <<>>)
         \o MillerSchedule(act, i + 1)

(* C13: multi_miller_loop starts with f = 1 and r_j = q_j, skips the first *)
(* element of BLS_X, and for each further element in order squares f       *)
(* (except at the first processed element), then takes one doubling step   *)
(* per kept pair, then one addition step per kept pair exactly when the    *)
(* element is 1; after the last element it conjugates f once and returns.  *)
C13_MillerLoopSchedule ==
    op = "multi_miller_loop" =>
        /\ Len(trace) <= Len(MillerSchedule(ActiveTerms(arg), 2))
        /\ trace = SubSeq(MillerSchedule(ActiveTerms(arg), 2), 1, Len(trace))
        /\ (pc = "idle") = (trace = MillerSchedule(ActiveTerms(arg), 2))
        /\ (pc = "idle") => res = Ret(Fp12_conjugate(local.f_acc))
        /\ (trace = <<>>) =>
               /\ local.f_acc = Fp12_ONE
               /\ local.r_pts = [k \in 1 .. Len(ActiveTerms(arg)) |->
                                    arg[ActiveTerms(arg)[k]][2]]

C13_Witness ==
    /\ op = "multi_miller_loop" /\ pc = "idle"
    /\ Len(ActiveTerms(arg)) = 2
    /\ res.outcome # Fp12_ONE

(***************************************************************************)
(* The value of the loop on a list all of whose pairs take part: the       *)
(* schedule applied operation by operation to (f, r).                      *)
(***************************************************************************)
MillerApply(terms, st, o) ==
    IF o[1] = "square" THEN <<Fp12_square_assign(st[1]), st[2]>>
    ELSE IF o[1] = "double"
    THEN <<ell(st[1], DoubleCoeffs(st[2][o[2]]), terms[o[2]][1]),
           [st[2] EXCEPT ![o[2]] = DoublePoint(@)]>>
    ELSE IF o[1] = "add"
    THEN <<ell(st[1], AddCoeffs(st[2][o[2]], terms[o[2]][2]), terms[o[2]][1]),
           [st[2] EXCEPT ![o[2]] = AddPoint(@, terms[o[2]][2])]>>
    ELSE <<Fp12_conjugate(st[1]), st[2]>>

RECURSIVE MillerRun(_, _, _)
MillerRun(terms, sched, n) ==
    IF n = 0 THEN <<Fp12_ONE, [k \in 1 .. Len(terms) |-> terms[k][2]]>>
    ELSE CHOOSE s \in {MillerApply(terms, st, sched[n]) :
                         st \in {MillerRun(terms, sched, n - 1)}} : TRUE

(* C14: a pair whose p or q is the identity takes part in no doubling or   *)
(* addition step, and the value returned is the value of the loop on the   *)
(* list with every such pair removed.                                      *)
C14_IdentityPairsSkipped ==
    LET HasIdentity(t) == t[1] = G1Identity \/ t[2] = 0
        rest == SelectSeq(arg, LAMBDA t : ~HasIdentity(t))
        sched == MillerSchedule([k \in 1 .. Len(rest) |-> k], 2)
    IN  op = "multi_miller_loop" =>
          /\ \A n \in 1 .. Len(trace) :
                 trace[n][1] \in {"double", "add"} =>
                     ~HasIdentity(arg[trace[n][2]])
          /\ (pc = "idle") =>
                 res.outcome = MillerRun(rest, sched, Len(sched))[1]

C14_Witness ==
    /\ op = "multi_miller_loop" /\ pc = "idle"
    /\ Len(arg) = 2
    /\ arg[1][1] = G1Identity \/ arg[1][2] = 0
    /\ arg[2][1] # G1Identity /\ arg[2][2] # 0
    /\ res.outcome # Fp12_ONE

(* C15: multi_miller_loop on the single pair (identity, Q) returns the     *)
(* one of Fq12, and final_exponentiation of that value is the identity of  *)
(* Gt.                                                                     *)
C15_IdentityPairing ==
    (/\ op \in {"multi_miller_loop", "pairing"} /\ pc = "idle"
     /\ Len(arg) = 1 /\ arg[1][1] = G1Identity) =>
        /\ res = Ret(Fp12_ONE)
        /\ op = "pairing" => local.fe_self = Fp12_ONE

C15_Witness ==
    /\ op = "pairing" /\ pc = "idle"
    /\ arg = << <<G1Identity, 1>> >>
    /\ res = Ret(Fp12_ONE)

(* C16: final_exponentiation returns a value of Gt for every input, the    *)
(* zero element included; no input makes it abort.                         *)
C16_FinalExpNeverAborts ==
    (op = "final_exponentiation" /\ pc = "idle") => ~res.aborted

(* C18: clear_cofactor and is_torsion_free compute acc = e * P for their   *)
(* 56-byte big-endian constant e, walking the 447 bits after the first,    *)
(* most significant first, doubling at every bit and adding P when the bit *)
(* is 1; the skipped leading bit is 0; clear_cofactor returns e * P and    *)
(* is_torsion_free returns true exactly when e * P is the identity.        *)
C18_CofactorScalarMul ==
    LET e == IF op = "Triton::clear_cofactor" THEN ClearCofactorE ELSE TorsionFreeE
        RECURSIVE EMod(_)
        EMod(n) == IF n = 0 THEN 0
                   ELSE (256 * EMod(n - 1) + e[n]) % TritonOrder
        eP == (EMod(Len(e)) * arg) % TritonOrder
    IN  op \in {"Triton::clear_cofactor", "Triton::is_torsion_free"} =>
          /\ Len(e) = 56
          /\ EBit(e, 1) = 0
          /\ local.tr_bit \in 2 .. 449
          /\ (pc = "idle") =>
                /\ local.tr_bit = 449
                /\ local.tr_acc = eP
                /\ op = "Triton::clear_cofactor" => res = Ret(eP)
                /\ op = "Triton::is_torsion_free" => res = Ret(eP = 0)

C18_Witness ==
    /\ op = "Triton::clear_cofactor" /\ pc = "idle"
    /\ arg # 0 /\ res.outcome # arg /\ res.outcome # 0

(* C19: for every P the two functions execute the same sequence of group   *)
(* operations: 447 passes, each one doubling, one addition and one         *)
(* conditional_select, with no early exit.                                 *)
C19_CofactorLoopUniform ==
    op \in {"Triton::clear_cofactor", "Triton::is_torsion_free"} =>
        /\ Len(trace) = 3 * (local.tr_bit - 2)
        /\ \A n \in 1 .. Len(trace) :
               trace[n] = <<(<<"double", "add", "conditional_select">>)[((n - 1) % 3) + 1], 0>>
        /\ (pc = "idle") => Len(trace) = 3 * 447

C19_Witness ==
    /\ op = "Triton::is_torsion_free" /\ pc = "idle"
    /\ arg # 0 /\ res = Ret(FALSE)
    /\ Len(trace) = 1341

(* C20: Fq2::sqrt executes the same sequence of field operations for any   *)
(* two inputs, whichever outcome applies; here: every completed call has   *)
(* executed the sequence the call on the element one executes.             *)
C20_SqrtOpsUniform ==
    (op = "Fq2::sqrt" /\ pc = "idle" /\ ~res.aborted) =>
        trace = SqrtBodyOps(Fq2_ONE)

(* C22: Fq2::cmp is the lexicographic total order with c1 the most         *)
(* significant coordinate: it compares the c1 coordinates and, when they   *)
(* are equal, the c0 coordinates; it is Equal exactly for equal elements,  *)
(* cmp(b, a) is the reverse of cmp(a, b), and partial_cmp is Some(cmp).    *)
C22_CmpLexicographic ==
    op = "Fq2::cmp" =>
        LET a == arg[1]
            b == arg[2]
            lex == IF a.c1 # b.c1
                   THEN (IF a.c1 < b.c1 THEN "Less" ELSE "Greater")
                   ELSE IF a.c0 # b.c0
                   THEN (IF a.c0 < b.c0 THEN "Less" ELSE "Greater")
                   ELSE "Equal"
            rev == [Less |-> "Greater", Equal |-> "Equal", Greater |-> "Less"]
        IN  /\ res.outcome[1] = lex
            /\ (res.outcome[1] = "Equal") = (a = b)
            /\ res.outcome[2] = rev[res.outcome[1]]
            /\ res.outcome[3] = <<"Some", res.outcome[1]>>

C22_Witness ==
    /\ op = "Fq2::cmp"
    /\ arg[1].c1 < arg[2].c1 /\ arg[1].c0 > arg[2].c0
    /\ res.outcome[1] = "Less"

C24_SpecialisedMulIsMul ==
    /\ op \in {"Fq2::test_mul_nonresidue", "Fq6::test_mul_nonresidue",
                "Fq6::test_mul_by_1", "Fq6::test_mul_by_01"} =>
           res.outcome[1] = res.outcome[2]
    /\ op = "Fq6::test_mul_nonresidue" =>
           res.outcome[1] = MkFq6(Fq2_mul_assign(arg.c2, MkFq2(2, 1)), arg.c0, arg.c1)

C24_Witness ==
    /\ op = "Fq6::test_mul_by_01"
    /\ arg[1] = RandFq6(1, 0) /\ arg[2] = RandFq2(0, 10) /\ arg[3] = RandFq2(1, 9)
    /\ res.outcome[1] \notin {Fq6_ZERO, arg[1]}

(* C27: for every x = c0 + c1 u of Fq2, norm(x) is x * conjugate(x) as an  *)
(* element of the base field, that is c0^2 - U_SQUARE * c1^2.              *)
C27_NormIsProductWithConjugate ==
    op = "Fq2::norm" =>
        /\ Fq2_mul_assign(arg, Fq2_conjugate(arg)) = MkFq2(res.outcome, 0)
        /\ res.outcome = (arg.c0 * arg.c0 + (Q - U_SQUARE) * arg.c1 * arg.c1) % Q

(* C28: for every a = c0 + c1 w of Fp12, a.frobenius_map(6) is the         *)
(* conjugate of a (c0 unchanged, c1 negated), not the identity map.        *)
C28_Frobenius6IsConjugate ==
    (op = "Fp12::frobenius_map" /\ arg[2] = 6) =>
        res.outcome = Fp12_conjugate(arg[1])

(* C29: for every power, also beyond the cycle length, frobenius_map stays *)
(* within its tables and does not abort; the result is that of             *)
(* frobenius_map(power mod 12) for Fp12, (power mod 6) for Fq6 and         *)
(* (power mod 2) for Fq2, and frobenius_map(0) is the identity map.        *)
C29_FrobeniusPowerIsCyclic ==
    LET a == arg[1]
        power == arg[2]
    IN  /\ op \in {"Fq2::frobenius_map", "Fq6::frobenius_map",
                    "Fp12::frobenius_map"} =>
               /\ ~res.aborted
               /\ power = 0 => res.outcome = a
        /\ op = "Fq2::frobenius_map" =>
               res.outcome = Fq2_frobenius_map(a, power % 2)
        /\ op = "Fq6::frobenius_map" =>
               /\ res.outcome = Fq6_frobenius_map(a, power % 6)
               /\ (power % 6) + 1 \in DOMAIN FROBENIUS_COEFF_FQ6_C1
               /\ (power % 6) + 1 \in DOMAIN FROBENIUS_COEFF_FQ6_C2
        /\ op = "Fp12::frobenius_map" =>
               /\ res.outcome = Fp12_frobenius_map(a, power % 12)
               /\ (power % 12) + 1 \in DOMAIN FROBENIUS_COEFF_FP12_C1

C29_Witness ==
    /\ op = "Fp12::frobenius_map"
    /\ arg[1] = RandFp12(0) /\ arg[2] = 19
    /\ res.outcome # arg[1]

(* C25: in every iteration of multi_miller_loop the squaring of f comes    *)
(* before all doubling steps and the doubling steps of all pairs before    *)
(* every addition step; pairs are visited in list order; r_j is updated    *)
(* only by the steps of its own pair, with its own q_j; and at the end of  *)
(* each iteration all r_j have gone through the same number of doubling    *)
(* steps and the same number of addition steps.                            *)
C25_MillerLockStep ==
    op = "multi_miller_loop" =>
        LET act == local.active
            last == Len(act)
            pos(j) == CHOOSE k \in 1 .. last : act[k] = j
            after(e) ==
                IF e[1] = "square"
                THEN (IF last = 0 THEN {<<"square", 0>>, <<"conjugate", 0>>}
                      ELSE {<<"double", act[1]>>})
                ELSE IF pos(e[2]) < last
                THEN {<<e[1], act[pos(e[2]) + 1]>>}
                ELSE IF e[1] = "double"
                THEN {<<"add", act[1]>>, <<"square", 0>>, <<"conjugate", 0>>}
                ELSE {<<"square", 0>>, <<"conjugate", 0>>}
            count(kind, j) ==
                Cardinality({n \in 1 .. Len(trace) : trace[n] = <<kind, j>>})
            RECURSIVE own(_, _)
            own(k, n) ==
                IF n = 0 THEN arg[act[k]][2]
                ELSE IF trace[n] = <<"double", act[k]>>
                THEN (2 * own(k, n - 1)) % G2Order
                ELSE IF trace[n] = <<"add", act[k]>>
                THEN (own(k, n - 1) + arg[act[k]][2]) % G2Order
                ELSE own(k, n - 1)
        IN  /\ (trace # <<>> /\ last > 0) => trace[1] = <<"double", act[1]>>
            /\ \A n \in 1 .. (Len(trace) - 1) :
                   /\ trace[n][1] # "conjugate"
                   /\ trace[n + 1] \in after(trace[n])
            /\ \A k \in 1 .. last : local.r_pts[k] = own(k, Len(trace))
            /\ local.phase = "top" =>
                   \A k \in 1 .. last :
                      /\ count("double", act[k]) = count("double", act[1])
                      /\ count("add", act[k]) = count("add", act[1])
                      /\ count("double", act[k]) = local.x_idx - 2

C25_Witness ==
    /\ op = "multi_miller_loop" /\ pc = "miller"
    /\ local.phase = "top" /\ local.x_idx = 5
    /\ Len(local.active) = 2
    /\ local.r_pts[1] # local.r_pts[2]
    /\ local.r_pts[1] # arg[local.active[1]][2]

C30_MillerLoopPermutationInvariant ==
    LET n == Len(arg)
        Perms == {s \in [1 .. n -> 1 .. n] :
                     \A a, b \in 1 .. n : s[a] = s[b] => a = b}
        value(terms) ==
            LET sched == MillerSchedule(ActiveTerms(terms), 2)
            IN  MillerRun(terms, sched, Len(sched))[1]
    IN  (op = "multi_miller_loop" /\ pc = "idle") =>
            \A s \in Perms :
                \A out \in {value([k \in 1 .. n |-> arg[s[k]]])} :
                    res.outcome = out

C30_Witness ==
    /\ op = "multi_miller_loop" /\ pc = "idle"
    /\ Len(arg) = 2
    /\ Len(ActiveTerms(arg)) = 2
    /\ arg[1][1] # arg[2][1] /\ arg[1][2] # arg[2][2]
    /\ res.outcome # Fp12_ONE /\ res.outcome # Fp12_ZERO
    /\ \A out \in {MillerRun(<<arg[2], arg[1]>>,
                               MillerSchedule(<<1, 2>>, 2),
                               Len(MillerSchedule(<<1, 2>>, 2)))[1]} :
           res.outcome = out

====
